---- MODULE Spec2Model ----
(***************************************************************************)
(* A model of markitdown_mcp_server/server.py: the prompt dispatcher       *)
(* get_prompt, the converter adapter convert_to_markdown, the lint adapter *)
(* apply_markdownlint_rules and the directory lister of the "ls" prompt.   *)
(*                                                                         *)
(* A Python str is a sequence of one-character strings, so that split,     *)
(* strip, lower and substring search are computed and not assumed.         *)
(***************************************************************************)
EXTENDS Integers, Sequences, FiniteSets, TLC

\* ------------------------------------------------------------------ bounds
\* Call frames the transport may have open.
MaxCalls == 2
\* Names the temp directory can hold at once.
MaxTempFiles == 2
\* Entries of a directory listing.
MaxEntries == 2
\* Characters of all the names of a directory listing together.
MaxListingChars == 6

Calls == 1..MaxCalls
TempPaths == 1..MaxTempFiles

\* ----------------------------------------------------------- Python values
\* None, and a str that is present.
None == [isNone |-> TRUE, v |-> <<>>]
Some(s) == [isNone |-> FALSE, v |-> s]
\* Python truthiness of an optional str: None and "" are falsy.
Truthy(o) == ~o.isNone /\ o.v # <<>>

\* ------------------------------------------------------------- str helpers
RECURSIVE Contains(_, _)
\* sub in s
Contains(s, sub) ==
    IF Len(sub) > Len(s) THEN FALSE
    ELSE IF SubSeq(s, 1, Len(sub)) = sub THEN TRUE
    ELSE Contains(Tail(s), sub)

IsSpace(ch) == ch = " "

RECURSIVE LStrip(_)
LStrip(s) == IF s # <<>> /\ IsSpace(Head(s)) THEN LStrip(Tail(s)) ELSE s

RECURSIVE RStrip(_)
RStrip(s) ==
    IF s # <<>> /\ IsSpace(s[Len(s)]) THEN RStrip(SubSeq(s, 1, Len(s) - 1)) ELSE s

\* str.strip()
Strip(s) == RStrip(LStrip(s))

RECURSIVE SplitFrom(_, _, _)
\* the pieces of s cut at sep, cur being the piece under construction
SplitFrom(s, sep, cur) ==
    IF s = <<>> THEN <<cur>>
    ELSE IF Head(s) = sep THEN <<cur>> \o SplitFrom(Tail(s), sep, <<>>)
    ELSE SplitFrom(Tail(s), sep, Append(cur, Head(s)))

\* str.split(sep) for a one-character sep
Split(s, sep) == SplitFrom(s, sep, <<>>)

\* Code points of the characters directory entries are drawn from.
Ord(ch) ==
    CASE ch = "." -> 46
      [] ch = "A" -> 65
      [] ch = "a" -> 97

LowerChar(ch) == IF ch = "A" THEN "a" ELSE ch
UpperChar(ch) == IF ch = "a" THEN "A" ELSE ch

\* str.lower(), str.upper()
Lower(s) == [i \in 1..Len(s) |-> LowerChar(s[i])]
Upper(s) == [i \in 1..Len(s) |-> UpperChar(s[i])]

RECURSIVE StrLess(_, _)
\* a < b, the order sorted() puts str in: by code point, a prefix first
StrLess(a, b) ==
    IF b = <<>> THEN FALSE
    ELSE IF a = <<>> THEN TRUE
    ELSE IF Ord(Head(a)) # Ord(Head(b)) THEN Ord(Head(a)) < Ord(Head(b))
    ELSE StrLess(Tail(a), Tail(b))

RECURSIVE InsertSorted(_, _)
InsertSorted(x, s) ==
    IF s = <<>> THEN <<x>>
    ELSE IF StrLess(Head(s), x) \/ Head(s) = x THEN <<Head(s)>> \o InsertSorted(x, Tail(s))
    ELSE <<x>> \o s

RECURSIVE PySorted(_)
\* sorted(files): stable, ascending
PySorted(s) ==
    IF s = <<>> THEN <<>>
    ELSE InsertSorted(s[Len(s)], PySorted(SubSeq(s, 1, Len(s) - 1)))

\* --------------------------------------------------------------- registry
\* PROMPTS: the registered prompt names.
PROMPTS == {"md", "md_lint", "ls"}

\* A dict[str, str] | None of prompt arguments. A key that is absent maps to
\* None (the values of the dict are str, never None).
NoArguments == [isNone |-> TRUE, file_path |-> None, lint_rules |-> None, directory |-> None]
Dict(fp, lr, dir) == [isNone |-> FALSE, file_path |-> fp, lint_rules |-> lr, directory |-> dir]
\* The lookup left out.
RegisteredAlways(n) == TRUE

\* name in PROMPTS
Registered(n) == n \in PROMPTS

\* bool(arguments): None and {} are falsy.
ArgsTruthy(a) ==
    ~a.isNone /\ (~a.file_path.isNone \/ ~a.lint_rules.isNone \/ ~a.directory.isNone)

\* The default of arguments.get("lint_rules", ...).
DefaultLintRules ==
    <<"M", "D", "0", "1", "0", ",", "M", "D", "0", "1", "8", ",", "M", "D", "0", "4", "1", ",", "M", "D", "0", "1", "3", ",", "M", "D", "0", "3", "3", ",", "M", "D", "0", "4", "0">>

\* ------------------------------------------------------- converter adapter
ErrorConverting ==
    <<"E", "r", "r", "o", "r", " ", "c", "o", "n", "v", "e", "r", "t", "i", "n", "g", " ", "d", "o", "c", "u", "m", "e", "n", "t", ":", " ">>

\* What MarkItDown().convert(file_path) does: it returns a result or raises.
Converted(title, text) == [raised |-> FALSE, msg |-> <<>>, title |-> title, text_content |-> text]
ConvertRaised(msg) == [raised |-> TRUE, msg |-> msg, title |-> None, text_content |-> <<>>]

\* The except clause returning str(e) alone.
convert_to_markdown_bare(o) ==
    IF o.raised THEN [title |-> None, content |-> o.msg]
    ELSE [title |-> o.title, content |-> o.text_content]

\* convert_to_markdown: (title, content) of one conversion attempt o.
convert_to_markdown(o) ==
    IF o.raised THEN [title |-> None, content |-> ErrorConverting \o o.msg]
    ELSE [title |-> o.title, content |-> o.text_content]

\* ------------------------------------------------------------ lint adapter
\* The --config argument of the linter command: none, the project file, or
\* the inline JSON {'default': True, 'rules': {rule.strip(): True ...}}, whose
\* 'rules' dict is kept as its set of keys (every value is True).
NoConfigArg == [kind |-> "none", default |-> FALSE, rules |-> {}]
FileConfigArg == [kind |-> "file", default |-> FALSE, rules |-> {}]
InlineConfigArg(rules) ==
    LET pieces == Split(rules, ",")
    IN  [kind |-> "inline", default |-> TRUE,
         rules |-> {Strip(pieces[i]) : i \in 1..Len(pieces)}]

\* cmd, as built from the temp file, os.path.exists(config_file) and rules.
LintCommand(path, exists, rules) ==
    [prog |-> "markdownlint", file |-> path, json |-> TRUE,
     config |-> IF exists THEN FileConfigArg
                ELSE IF Truthy(rules) THEN InlineConfigArg(rules.v)
                ELSE NoConfigArg]

\* Standard output of the linter process: nothing, text that is no JSON, or
\* a JSON list of findings.
EmptyOut == [kind |-> "empty", value |-> <<>>]
TextOut == [kind |-> "text", value |-> <<>>]
JsonOut(findings) == [kind |-> "json", value |-> findings]

\* lint_errors after "if result.stdout: try json.loads ... except JSONDecodeError".
ParseLintOutput(stdout) ==
    IF stdout.kind = "empty" THEN <<>>
    ELSE IF stdout.kind = "json" THEN stdout.value
    ELSE <<[error |-> <<"Failed to parse lint output", "">>]>>

\* A fix applied when there are findings: trailing blanks removed.
ApplyFixesTrim(markdown_content, lint_errors) ==
    IF lint_errors # <<>>
    THEN SubSeq(markdown_content, 1, Len(markdown_content) - 1)
    ELSE markdown_content

\* fixed_content: "for now, return the original content".
ApplyFixes(markdown_content, lint_errors) == markdown_content

\* The pair the except clause returns.
LintingFailed(markdown_content, e) ==
    [content |-> markdown_content, findings |-> <<[error |-> <<"Linting failed: ", e>>]>>]

\* The pair the try block returns.
LintReturn(markdown_content, lint_errors) ==
    [content |-> ApplyFixes(markdown_content, lint_errors), findings |-> lint_errors]

\* One "- ..." line of the "Lint Issues Found" list: the generic-error shape
\* prints its message, the parsed-rule shape its line and rule description.
FormatFinding(error) ==
    IF "error" \in DOMAIN error
    THEN [shape |-> "error", line |-> <<>>, text |-> error.error]
    ELSE [shape |-> "rule",
          line |-> IF "lineNumber" \in DOMAIN error THEN <<error.lineNumber>> ELSE <<"?">>,
          text |-> <<IF "ruleDescription" \in DOMAIN error THEN error.ruleDescription
                     ELSE "Unknown rule", "">>]

Block(tag, text, items) == [tag |-> tag, text |-> text, items |-> items]

\* The text of the md response: the title, if any, then the content.
FormatMd(markdown_title, markdown_content) ==
    << Block("converted", IF Truthy(markdown_title) THEN markdown_title.v ELSE <<>>, <<>>),
       Block("content", markdown_content, <<>>) >>

\* output of the md_lint branch, block by block in the order it is appended.
FormatMdLint(markdown_title, lint_rules, markdown_content, fixed_content, lint_errors) ==
    << Block("heading", <<>>, <<>>) >>
    \o (IF Truthy(markdown_title) THEN << Block("title", markdown_title.v, <<>>) >> ELSE <<>>)
    \o << Block("applied_rules", lint_rules, <<>>) >>
    \o (IF lint_errors # <<>>
        THEN << Block("lint_issues", <<>>,
                      [i \in 1..Len(lint_errors) |-> FormatFinding(lint_errors[i])]) >>
        ELSE <<>>)
    \o << Block("markdown_content", markdown_content, <<>>) >>
    \o (IF fixed_content # markdown_content
        THEN << Block("fixed_content", fixed_content, <<>>) >>
        ELSE <<>>)

\* -------------------------------------------------------- directory lister
\* "." in file
HasDot(file) == \E i \in 1..Len(file) : file[i] = "."

\* The extension kept in the case it is written in.
ExtensionCased(file) ==
    LET pieces == Split(file, ".")
    IN  pieces[Len(pieces)]

\* file.split(".")[-1].lower()
Extension(file) ==
    LET pieces == Split(file, ".")
    IN  Lower(pieces[Len(pieces)])

\* extensions[ext].append(file), on a dict that keeps insertion order: a
\* sequence of (ext, files) items.
AppendToExtension(extensions, ext, file) ==
    IF \E i \in 1..Len(extensions) : extensions[i].ext = ext
    THEN [i \in 1..Len(extensions) |->
            IF extensions[i].ext = ext
            THEN [ext |-> ext, files |-> Append(extensions[i].files, file)]
            ELSE extensions[i]]
    ELSE Append(extensions, [ext |-> ext, files |-> <<file>>])

RECURSIVE GroupFiles(_, _)
\* The loop "for file in files": acc is (extensions, no_extension) so far.
GroupFiles(files, acc) ==
    IF files = <<>> THEN acc
    ELSE LET file == Head(files)
         IN  GroupFiles(Tail(files),
                IF HasDot(file)
                THEN [extensions |-> AppendToExtension(acc.extensions, Extension(file), file),
                      no_extension |-> acc.no_extension]
                ELSE [extensions |-> acc.extensions,
                      no_extension |-> Append(acc.no_extension, file)])

Grouping(files) == GroupFiles(files, [extensions |-> <<>>, no_extension |-> <<>>])

\* enumerate(sorted(files), 1)
CompleteListing(files) ==
    LET sorted == PySorted(files)
    IN  [i \in 1..Len(sorted) |-> [idx |-> i, file |-> sorted[i]]]

\* formatted_output of the ls branch, section by section.
FormatLs(directory, files) ==
    LET g == Grouping(files)
    IN  [directory |-> directory,
         file_count |-> Len(files),
         by_type |-> [i \in 1..Len(g.extensions) |->
                        [label |-> Upper(g.extensions[i].ext),
                         count |-> Len(g.extensions[i].files),
                         files |-> g.extensions[i].files]],
         without_extension |-> g.no_extension,
         complete |-> CompleteListing(files)]

\* ------------------------------------------------------------------- state
VARIABLES
    pc,             \* where each call frame of get_prompt stands
    name,           \* its name parameter
    arguments,      \* its arguments parameter
    frame,          \* its local variables
    outcome,        \* what it returned or raised
    effects,        \* the external operations it has performed, in order
    env,            \* what the converter, the file system and the linter did to it
    disk,           \* the temp directory: path -> file
    config_exists   \* os.path.exists(config_file) for .markdownlint.json

vars == <<pc, name, arguments, frame, outcome, effects, env, disk, config_exists>>

NoFile == [exists |-> FALSE, data |-> <<>>]
File(data) == [exists |-> TRUE, data |-> data]

NoCommand == [prog |-> "", file |-> 0, json |-> FALSE, config |-> NoConfigArg]
NoLint == [content |-> <<>>, findings |-> <<>>]

EmptyFrame ==
    [file_path |-> None, lint_rules |-> None, directory |-> None,
     markdown_title |-> None, markdown_content |-> <<>>,
     temp_file_path |-> 0, cmd |-> NoCommand, raised |-> "",
     lint_errors |-> <<>>, lint |-> NoLint,
     files |-> <<>>, extensions |-> <<>>, no_extension |-> <<>>]

NoOutcome == [kind |-> "none", message |-> <<"", "">>, text |-> <<>>, report |-> <<>>]
\* raise ValueError(f"{prefix}{detail}")
ValueError(prefix, detail) ==
    [kind |-> "error", message |-> <<prefix, detail>>, text |-> <<>>, report |-> <<>>]
\* return types.GetPromptResult(... text=...)
GetPromptResult(text) ==
    [kind |-> "result", message |-> <<"", "">>, text |-> text, report |-> <<>>]
LsResult(report) ==
    [kind |-> "result", message |-> <<"", "">>, text |-> <<>>, report |-> <<report>>]

NoEnv == [convert |-> <<>>, write |-> <<>>, linter |-> <<>>, config |-> <<>>, listdir |-> <<>>]

Init ==
    /\ pc = [c \in Calls |-> "idle"]
    /\ name = [c \in Calls |-> ""]
    /\ arguments = [c \in Calls |-> NoArguments]
    /\ frame = [c \in Calls |-> EmptyFrame]
    /\ outcome = [c \in Calls |-> NoOutcome]
    /\ effects = [c \in Calls |-> <<>>]
    /\ env = [c \in Calls |-> NoEnv]
    /\ disk = [p \in TempPaths |-> NoFile]
    /\ config_exists \in BOOLEAN

\* Paths no file of the temp directory has.
FreePaths == {p \in TempPaths : ~disk[p].exists}
\* Calls that are running.
Active == {c \in Calls : pc[c] \notin {"idle", "done", "failed"}}

\* The call ends by raising.
Raise(c, error) ==
    /\ pc' = [pc EXCEPT ![c] = "failed"]
    /\ outcome' = [outcome EXCEPT ![c] = error]

\* The call ends by returning.
Return(c, result) ==
    /\ pc' = [pc EXCEPT ![c] = "done"]
    /\ outcome' = [outcome EXCEPT ![c] = result]

\* The call goes on to its next external operation.
Goto(c, label) ==
    /\ pc' = [pc EXCEPT ![c] = label]
    /\ UNCHANGED outcome

\* ----------------------------------------------------------------- actions
\* get_prompt(name, arguments), up to its first external operation: the
\* lookup in PROMPTS and the argument checks of the branch taken.
\* A call starts only while the temp directory has a free name for every
\* running call, so that NamedTemporaryFile always finds one.
GetPrompt(c, n, a) ==
    /\ pc[c] = "idle"
    /\ Cardinality(FreePaths) > Cardinality(Active)
    /\ name' = [name EXCEPT ![c] = n]
    /\ arguments' = [arguments EXCEPT ![c] = a]
    /\ effects' = [effects EXCEPT ![c] = <<>>]
    /\ env' = [env EXCEPT ![c] = NoEnv]
    /\ IF ~Registered(n) THEN
            /\ Raise(c, ValueError("Prompt not found: ", n))
            /\ frame' = [frame EXCEPT ![c] = EmptyFrame]
       ELSE IF n \in {"md", "md_lint"} THEN
            IF ~ArgsTruthy(a) THEN
                /\ Raise(c, ValueError("Arguments required", ""))
                /\ frame' = [frame EXCEPT ![c] = EmptyFrame]
            ELSE
                LET file_path == a.file_path
                    lint_rules == IF n = "md" THEN None
                                  ELSE IF a.lint_rules.isNone THEN Some(DefaultLintRules)
                                  ELSE a.lint_rules
                IN  /\ frame' = [frame EXCEPT ![c] =
                            [EmptyFrame EXCEPT !.file_path = file_path,
                                               !.lint_rules = lint_rules]]
                    /\ IF ~Truthy(file_path)
                       THEN Raise(c, ValueError("file_path is required", ""))
                       ELSE Goto(c, "convert")
       ELSE IF n # "ls" THEN
            /\ Raise(c, ValueError("Prompt implementation not found", ""))
            /\ frame' = [frame EXCEPT ![c] = EmptyFrame]
       ELSE \* arguments["directory"] inside the try
            IF a.isNone THEN
                /\ Raise(c, ValueError("Error listing directory: ",
                                       "'NoneType' object is not subscriptable"))
                /\ frame' = [frame EXCEPT ![c] = EmptyFrame]
            ELSE IF a.directory.isNone THEN
                /\ Raise(c, ValueError("Error listing directory: ", "'directory'"))
                /\ frame' = [frame EXCEPT ![c] = EmptyFrame]
            ELSE
                /\ frame' = [frame EXCEPT ![c] =
                        [EmptyFrame EXCEPT !.directory = a.directory]]
                /\ Goto(c, "listdir")
    /\ UNCHANGED <<disk, config_exists>>

\* The content test left out.
ContentProducedAlways(markdown_content) == TRUE

\* "if markdown_content:" of the md_lint branch
ContentProduced(markdown_content) == markdown_content # <<>>

\* markdown_title, markdown_content = convert_to_markdown(file_path), the
\* converter doing o; then the md response, or the content test of md_lint.
ConvertToMarkdown(c, o) ==
    /\ pc[c] = "convert"
    /\ effects' = [effects EXCEPT ![c] = Append(@, "convert")]
    /\ env' = [env EXCEPT ![c].convert = <<o>>]
    /\ LET r == convert_to_markdown(o)
       IN  /\ frame' = [frame EXCEPT ![c].markdown_title = r.title,
                                     ![c].markdown_content = r.content]
           /\ IF name[c] = "md"
              THEN Return(c, GetPromptResult(FormatMd(r.title, r.content)))
              ELSE IF ContentProduced(r.content)
              THEN Goto(c, "mktemp")
              ELSE Raise(c, ValueError("Error processing document with linting: ",
                                       "Failed to convert document to markdown"))
    /\ UNCHANGED <<name, arguments, disk, config_exists>>

\* One fixed name for every call's file.
TempNameFixed == {1}

\* A name NamedTemporaryFile may give the new file: one no file has.
TempName == FreePaths

\* tempfile.NamedTemporaryFile(mode='w', suffix='.md', delete=False): a new,
\* empty file under a name of its own.
MakeTemp(c) ==
    /\ pc[c] = "mktemp"
    /\ \E p \in TempName :
        /\ disk' = [disk EXCEPT ![p] = File(<<>>)]
        /\ frame' = [frame EXCEPT ![c].temp_file_path = p]
    /\ effects' = [effects EXCEPT ![c] = Append(@, "mktemp")]
    /\ Goto(c, "write")
    /\ UNCHANGED <<name, arguments, env, config_exists>>

\* temp_file.write(markdown_content) and the close of the with block. When it
\* raises, control leaves the outer try for "except Exception" at once.
WriteTemp(c, ok) ==
    /\ pc[c] = "write"
    /\ effects' = [effects EXCEPT ![c] = Append(@, "write")]
    /\ env' = [env EXCEPT ![c].write = <<ok>>]
    /\ IF ok THEN
            /\ disk' = [disk EXCEPT ![frame[c].temp_file_path] =
                            File(frame[c].markdown_content)]
            /\ UNCHANGED frame
            /\ Goto(c, "run")
       ELSE
            /\ UNCHANGED disk
            /\ frame' = [frame EXCEPT ![c].temp_file_path = 0,
                            ![c].lint = LintingFailed(frame[c].markdown_content,
                                                      "write failed")]
            /\ Goto(c, "format")
    /\ UNCHANGED <<name, arguments, config_exists>>

\* What subprocess.run(cmd, capture_output=True, text=True, timeout=30) does:
\* it raises (no such program, timeout) or returns the completed process.
LinterRaised(error) == [kind |-> "raise", error |-> error, returncode |-> 0, out |-> "empty"]
LinterExit(returncode, out) == [kind |-> "exit", error |-> "", returncode |-> returncode, out |-> out]

\* The findings the linter reports on a file: they depend on the text read.
FindingsIn(data) == <<[lineNumber |-> Len(data), ruleDescription |-> "Line length"]>>

\* result.stdout of a completed linter process that was given file.
Stdout(lo, file) ==
    IF ~file.exists THEN EmptyOut
    ELSE IF lo.out = "json" THEN JsonOut(FindingsIn(file.data))
    ELSE IF lo.out = "text" THEN TextOut
    ELSE EmptyOut

\* The inner try: cmd is built, the linter runs, its output is parsed.
RunLinter(c, lo) ==
    /\ pc[c] = "run"
    /\ effects' = [effects EXCEPT ![c] = Append(@, "subprocess")]
    /\ env' = [env EXCEPT ![c].linter = <<lo>>, ![c].config = <<config_exists>>]
    /\ LET cmd == LintCommand(frame[c].temp_file_path, config_exists, frame[c].lint_rules)
       IN  IF lo.kind = "raise"
           THEN frame' = [frame EXCEPT ![c].cmd = cmd, ![c].raised = lo.error]
           ELSE frame' = [frame EXCEPT ![c].cmd = cmd,
                            ![c].lint_errors = ParseLintOutput(Stdout(lo, disk[cmd.file]))]
    /\ Goto(c, "cleanup")
    /\ UNCHANGED <<name, arguments, disk, config_exists>>

\* The path the finally clause unlinks.
UnlinkPath(c) == frame[c].temp_file_path

\* finally: if os.path.exists(temp_file_path): os.unlink(temp_file_path); then
\* the return of the try block, or of "except Exception" when the run raised.
\* The locals of apply_markdownlint_rules end with it; the pair it returns is
\* kept in lint.
Cleanup(c) ==
    /\ pc[c] = "cleanup"
    /\ IF disk[UnlinkPath(c)].exists
       THEN /\ disk' = [disk EXCEPT ![UnlinkPath(c)] = NoFile]
            /\ effects' = [effects EXCEPT ![c] = Append(@, "unlink")]
       ELSE UNCHANGED <<disk, effects>>
    /\ frame' = [frame EXCEPT
            ![c].temp_file_path = 0, ![c].cmd = NoCommand,
            ![c].raised = "", ![c].lint_errors = <<>>,
            ![c].lint =
                IF frame[c].raised # ""
                THEN LintingFailed(frame[c].markdown_content, frame[c].raised)
                ELSE LintReturn(frame[c].markdown_content, frame[c].lint_errors)]
    /\ Goto(c, "format")
    /\ UNCHANGED <<name, arguments, env, config_exists>>

\* The md_lint branch after apply_markdownlint_rules has returned.
Format(c) ==
    /\ pc[c] = "format"
    /\ Return(c, GetPromptResult(
            FormatMdLint(frame[c].markdown_title, frame[c].lint_rules.v,
                         frame[c].markdown_content, frame[c].lint.content,
                         frame[c].lint.findings)))
    /\ UNCHANGED <<name, arguments, frame, effects, env, disk, config_exists>>

\* What listdir(directory) does: it raises OSError or returns the entries.
ListdirRaised(error) == [raised |-> TRUE, error |-> error, files |-> <<>>]
Listed(files) == [raised |-> FALSE, error |-> "", files |-> files]

\* The ls branch: files = listdir(directory) and the report on files.
ListDir(c, ld) ==
    /\ pc[c] = "listdir"
    /\ frame[c].directory.v = <<>> => ld.raised
    /\ effects' = [effects EXCEPT ![c] = Append(@, "listdir")]
    /\ env' = [env EXCEPT ![c].listdir = <<ld>>]
    /\ frame' = [frame EXCEPT ![c].files = ld.files,
                              ![c].extensions = Grouping(ld.files).extensions,
                              ![c].no_extension = Grouping(ld.files).no_extension]
    /\ IF ld.raised
       THEN Raise(c, ValueError("Error listing directory: ", ld.error))
       ELSE Return(c, LsResult(FormatLs(frame[c].directory.v, ld.files)))
    /\ UNCHANGED <<name, arguments, disk, config_exists>>

\* The transport has sent the result or the failure: the frame is gone.
Respond(c) ==
    /\ pc[c] \in {"done", "failed"}
    /\ pc' = [pc EXCEPT ![c] = "idle"]
    /\ name' = [name EXCEPT ![c] = ""]
    /\ arguments' = [arguments EXCEPT ![c] = NoArguments]
    /\ frame' = [frame EXCEPT ![c] = EmptyFrame]
    /\ outcome' = [outcome EXCEPT ![c] = NoOutcome]
    /\ effects' = [effects EXCEPT ![c] = <<>>]
    /\ env' = [env EXCEPT ![c] = NoEnv]
    /\ UNCHANGED <<disk, config_exists>>

\* ------------------------------------------------------------------ inputs
FilePath == <<"f">>
Directory == <<"d">>
Doc1 == <<"#", " ", "A">>
Doc2 == <<"t", "e", "x", "t">>
Title == <<"T">>
RuleSpec == <<" ", "M", "D", "0", "1", "3", " ", ",", "M", "D", "0", "1", "0">>

PromptNames == PROMPTS \cup {"unknown"}

ArgumentBags ==
    { NoArguments,
      Dict(None, None, None),
      Dict(Some(<<>>), None, None),
      Dict(None, Some(RuleSpec), None),
      Dict(Some(FilePath), None, None),
      Dict(Some(FilePath), Some(<<>>), None),
      Dict(Some(FilePath), Some(RuleSpec), None),
      Dict(None, None, Some(<<>>)),
      Dict(None, None, Some(Directory)) }

ConverterOutcomes ==
    { Converted(None, <<>>), Converted(Some(Title), <<>>),
      Converted(None, Doc1), Converted(Some(Title), Doc2),
      ConvertRaised(<<>>), ConvertRaised(<<"b", "a", "d">>) }

LinterOutcomes ==
    { LinterRaised("[Errno 2] No such file or directory: 'markdownlint'"),
      LinterRaised("Command timed out after 30 seconds"),
      LinterExit(0, "empty"), LinterExit(1, "json"),
      LinterExit(2, "empty"), LinterExit(2, "text") }

ListdirErrors ==
    { ListdirRaised("[Errno 2] No such file or directory"),
      ListdirRaised("[Errno 13] Permission denied") }

Alphabet == {".", "A", "a"}

RECURSIVE SumTo(_, _)
SumTo(lens, n) == IF n = 0 THEN 0 ELSE lens[n] + SumTo(lens, n - 1)

\* The text s cut into names of the lengths lens.
Chop(s, lens) ==
    [i \in 1..Len(lens) |-> SubSeq(s, SumTo(lens, i - 1) + 1, SumTo(lens, i))]

\* What listdir can return: entries in any order, no name twice, and never
\* "." or "..".
IsListing(l) ==
    /\ \A i \in 1..Len(l) : l[i] \notin {<<".">>, <<".", ".">>}
    /\ \A i, j \in 1..Len(l) : i # j => l[i] # l[j]

SampleListings ==
    { <<>>, << <<"a", ".", "A">>, <<"A">>, <<".", "a">> >> }

\* ---------------------------------------------------------- specifications
\* No other call has a frame open.
Alone(c) == \A d \in Calls \ {c} : pc[d] = "idle"

\* get_prompt has no await: the event loop runs a call to its end before it
\* starts the next.
Next ==
    \E c \in Calls :
        \/ Alone(c) /\ \E n \in PromptNames, a \in ArgumentBags : GetPrompt(c, n, a)
        \/ \E o \in ConverterOutcomes : ConvertToMarkdown(c, o)
        \/ MakeTemp(c)
        \/ \E ok \in BOOLEAN : WriteTemp(c, ok)
        \/ \E lo \in LinterOutcomes : RunLinter(c, lo)
        \/ Cleanup(c)
        \/ Format(c)
        \/ \E ld \in ListdirErrors \cup {Listed(l) : l \in SampleListings} : ListDir(c, ld)
        \/ Respond(c)

Spec == Init /\ [][Next]_vars

\* A transport that lets calls overlap: their steps interleave at every
\* external operation.
InitOverlap == Init /\ ~config_exists

OverlapArguments == { Dict(Some(FilePath), None, None), Dict(None, None, Some(Directory)) }
OverlapConverted == { Converted(None, Doc1), Converted(None, Doc2) }
OverlapLinter ==
    { LinterRaised("[Errno 2] No such file or directory: 'markdownlint'"),
      LinterExit(1, "json") }

NextOverlap ==
    \E c \in Calls :
        \/ \E n \in {"md", "md_lint", "ls"}, a \in OverlapArguments : GetPrompt(c, n, a)
        \/ \E o \in OverlapConverted : ConvertToMarkdown(c, o)
        \/ MakeTemp(c)
        \/ \E ok \in BOOLEAN : WriteTemp(c, ok)
        \/ \E lo \in OverlapLinter : RunLinter(c, lo)
        \/ Cleanup(c)
        \/ Format(c)
        \/ ListDir(c, Listed(<<>>))
        \/ Respond(c)

SpecOverlap == InitOverlap /\ [][NextOverlap]_vars

\* The ls prompt on every listing of the bounded directories, one call at a
\* time (the lint configuration plays no part in it).
InitLs == Init /\ ~config_exists

NextLs ==
    \/ GetPrompt(1, "ls", Dict(None, None, Some(Directory)))
    \/ /\ pc[1] = "listdir"
       /\ \E n \in 0..MaxEntries, t \in 0..MaxListingChars :
            \E lens \in [1..n -> 1..MaxListingChars], s \in [1..t -> Alphabet] :
                /\ SumTo(lens, n) = t
                /\ IsListing(Chop(s, lens))
                /\ ListDir(1, Listed(Chop(s, lens)))
    \/ Respond(1)

SpecLs == InitLs /\ [][NextLs]_vars

\* ------------------------------------------------------------------ claims
Started(c) == pc[c] # "idle"
Ended(c) == pc[c] \in {"done", "failed"}
\* How often the call has performed the external operation e.
Count(c, e) == Cardinality({i \in 1..Len(effects[c]) : effects[c][i] = e})
\* The external operations of the lint adapter.
LintOps == {"mktemp", "write", "subprocess", "unlink"}
DidLint(c) == \E i \in 1..Len(effects[c]) : effects[c][i] \in LintOps

\* The required argument of a registered prompt.
Required(n, a) == IF n = "ls" THEN a.directory ELSE a.file_path
\* arguments is None or empty, or the required key is missing or empty.
MissingRequired(c) ==
    /\ name[c] \in {"md", "md_lint", "ls"}
    /\ ~ArgsTruthy(arguments[c]) \/ ~Truthy(Required(name[c], arguments[c]))

\* C1: a get_prompt call of md, md_lint or ls in which the required argument
\* is absent never returns a result, and no converter call, temp file, linter
\* process or directory read happens in it.
C1_MissingArgumentNoEffects ==
    \A c \in Calls :
        Started(c) /\ MissingRequired(c) => pc[c] # "done" /\ effects[c] = <<>>

\* C2: whenever apply_markdownlint_rules returns, the temp file it created is
\* no longer on disk, whichever way it returns.
C2_TempFileRemovedOnReturn ==
    [][\A c \in Calls :
        pc[c] \in {"write", "run", "cleanup"} /\ pc'[c] = "format"
            => ~disk'[frame[c].temp_file_path].exists]_vars

\* The linter invocation failed: it raised (no such program, timeout) or the
\* process ended with a status that is neither 0 (clean) nor 1 (findings).
LinterFailed(lo) == lo.kind = "raise" \/ lo.returncode \notin {0, 1}
IsGenericError(finding) == DOMAIN finding = {"error"}

\* C3: when the linter invocation failed, apply_markdownlint_rules has not
\* raised and returns the original content with exactly one finding, of the
\* generic-error shape.
C3_LinterFailureIsOneFinding ==
    \A c \in Calls :
        pc[c] \in {"format", "done", "failed"} /\ Len(env[c].linter) = 1
            /\ LinterFailed(env[c].linter[1])
        => /\ pc[c] # "failed"
           /\ frame[c].lint.content = frame[c].markdown_content
           /\ Len(frame[c].lint.findings) = 1
           /\ IsGenericError(frame[c].lint.findings[1])

\* The rule identifiers of a rule_spec: its comma-separated pieces, trimmed.
RuleIds(rule_spec) ==
    LET pieces == Split(rule_spec, ",")
    IN  {Strip(pieces[i]) : i \in 1..Len(pieces)}
\* A rule the linter knows and RuleSpec does not name.
OtherRule == <<"M", "D", "0", "0", "1">>
\* The linter runs rule under config: the rule is switched on by name, or it
\* is not named and "default" is true.
Enables(config, rule) == rule \in config.rules \/ config.default

\* C4: the --config of the linter command is the project file when it exists;
\* else, when rule_spec is given, an inline configuration that enables the
\* identifiers of rule_spec and no other rule; else there is none.
C4_ConfigPriority ==
    \A c \in Calls :
        pc[c] = "cleanup" =>
            LET config == frame[c].cmd.config
                rules == frame[c].lint_rules
            IN  IF env[c].config = <<TRUE>> THEN config = FileConfigArg
                ELSE IF Truthy(rules) THEN
                    /\ config.kind = "inline"
                    /\ \A r \in RuleIds(rules.v) \cup {OtherRule} :
                            Enables(config, r) <=> r \in RuleIds(rules.v)
                ELSE config = NoConfigArg

\* C5: in an md_lint call the lint adapter acts only after the conversion has
\* returned and only on content that is not empty; a conversion without
\* content ends the call in a processing error, with no lint operation and no
\* response text.
C5_LintOnlyAfterContent ==
    \A c \in Calls :
        name[c] = "md_lint" =>
            /\ DidLint(c) \/ pc[c] \in {"mktemp", "format"} =>
                    /\ effects[c][1] = "convert"
                    /\ frame[c].markdown_content # <<>>
            /\ Count(c, "convert") = 1 /\ frame[c].markdown_content = <<>> =>
                    /\ pc[c] = "failed"
                    /\ outcome[c].message[1] = "Error processing document with linting: "
                    /\ outcome[c].text = <<>>
                    /\ effects[c] = <<"convert">>

\* An md_lint call whose conversion gave no content has failed.
C5_Witness ==
    \E c \in Calls :
        /\ name[c] = "md_lint" /\ pc[c] = "failed"
        /\ Count(c, "convert") = 1 /\ frame[c].markdown_content = <<>>

ErrorWord == <<"E", "r", "r", "o", "r">>

\* C6: when the converter fails, convert_to_markdown has been tried once, has
\* not raised, and has returned no title and a content that contains "Error".
C6_ConverterFailureIsData ==
    \A c \in Calls :
        Len(env[c].convert) = 1 /\ env[c].convert[1].raised =>
            /\ Count(c, "convert") = 1
            /\ pc[c] # "failed"
            /\ frame[c].markdown_title = None
            /\ Contains(frame[c].markdown_content, ErrorWord)

\* An md call whose converter raised has returned its response.
C6_Witness ==
    \E c \in Calls :
        /\ name[c] = "md" /\ pc[c] = "done"
        /\ Len(env[c].convert) = 1 /\ env[c].convert[1].raised
        /\ env[c].convert[1].msg # <<>>

HasBlock(text, tag) == \E i \in 1..Len(text) : text[i].tag = tag

\* C7: the content apply_markdownlint_rules returns is the markdown it was
\* given, whatever the linter did, and no md_lint response has a
\* "Fixed Content" block.
C7_LintContentUnchanged ==
    \A c \in Calls :
        name[c] = "md_lint" =>
            /\ pc[c] \in {"format", "done"} =>
                    frame[c].lint.content = frame[c].markdown_content
            /\ pc[c] = "done" =>
                    /\ HasBlock(outcome[c].text, "markdown_content")
                    /\ ~HasBlock(outcome[c].text, "fixed_content")

\* An md_lint call has returned a response that lists findings of the linter.
C7_Witness ==
    \E c \in Calls :
        /\ name[c] = "md_lint" /\ pc[c] = "done"
        /\ env[c].linter = <<LinterExit(1, "json")>>
        /\ HasBlock(outcome[c].text, "lint_issues")

RegisteredNames == {"md", "md_lint", "ls"}

\* C9: a call whose name is not a registered prompt fails with the not-found
\* error before any argument check or external operation, and a call fails
\* with that error only when its name is not registered.
C9_UnknownPromptRejected ==
    \A c \in Calls :
        /\ Started(c) /\ name[c] \notin RegisteredNames =>
                /\ pc[c] = "failed"
                /\ outcome[c] = ValueError("Prompt not found: ", name[c])
                /\ effects[c] = <<>>
                /\ frame[c] = EmptyFrame
        /\ pc[c] = "failed" /\ name[c] \in RegisteredNames =>
                outcome[c].message[1] \notin {"Prompt not found: ",
                                              "Prompt implementation not found"}

\* A call with an unknown name and no arguments has failed.
C9_Witness ==
    \E c \in Calls :
        /\ pc[c] = "failed" /\ name[c] = "unknown" /\ arguments[c] = NoArguments

\* The call holds a temp file of its own.
HoldsTemp(c) == pc[c] \in {"write", "run", "cleanup"}

\* What apply_markdownlint_rules returns to a call that runs alone, given
\* what the file system and the linter did to it (e): the linter then reads
\* the very text the call wrote.
LintAlone(markdown_content, e) ==
    IF e.write = <<FALSE>> THEN LintingFailed(markdown_content, "write failed")
    ELSE IF e.linter[1].kind = "raise"
    THEN LintingFailed(markdown_content, e.linter[1].error)
    ELSE LintReturn(markdown_content,
                    ParseLintOutput(Stdout(e.linter[1], File(markdown_content))))

\* What get_prompt(n, a) returns or raises when it runs alone.
OutcomeAlone(n, a, e) ==
    IF ~Registered(n) THEN ValueError("Prompt not found: ", n)
    ELSE IF n = "ls" THEN
        IF a.isNone
        THEN ValueError("Error listing directory: ", "'NoneType' object is not subscriptable")
        ELSE IF a.directory.isNone THEN ValueError("Error listing directory: ", "'directory'")
        ELSE IF e.listdir[1].raised
        THEN ValueError("Error listing directory: ", e.listdir[1].error)
        ELSE LsResult(FormatLs(a.directory.v, e.listdir[1].files))
    ELSE IF ~ArgsTruthy(a) THEN ValueError("Arguments required", "")
    ELSE IF ~Truthy(a.file_path) THEN ValueError("file_path is required", "")
    ELSE LET r == convert_to_markdown(e.convert[1])
             lint_rules == IF a.lint_rules.isNone THEN DefaultLintRules ELSE a.lint_rules.v
             lint == LintAlone(r.content, e)
         IN  IF n = "md" THEN GetPromptResult(FormatMd(r.title, r.content))
             ELSE IF ContentProduced(r.content)
             THEN GetPromptResult(FormatMdLint(r.title, lint_rules, r.content,
                                               lint.content, lint.findings))
             ELSE ValueError("Error processing document with linting: ",
                             "Failed to convert document to markdown")

\* C8: overlapping calls are independent: calls that hold a temp file hold
\* different files, the file of a call has the text that call wrote until the
\* call itself removes it, and a call that has ended has the outcome it would
\* have had running alone.
C8_CallsIndependent ==
    \A c \in Calls :
        /\ HoldsTemp(c) =>
            /\ frame[c].temp_file_path \in TempPaths
            /\ \A d \in Calls \ {c} :
                    HoldsTemp(d) => frame[d].temp_file_path # frame[c].temp_file_path
            /\ disk[frame[c].temp_file_path] =
                    IF pc[c] = "write" THEN File(<<>>) ELSE File(frame[c].markdown_content)
        /\ pc[c] = "cleanup" => frame[c].cmd.file = frame[c].temp_file_path
        /\ Ended(c) => outcome[c] = OutcomeAlone(name[c], arguments[c], env[c])

\* Two md_lint calls on different documents overlap: one has its file linted
\* while the other is about to remove its own, and the first then ends.
C8_Witness ==
    \E c, d \in Calls :
        /\ c # d /\ pc[c] = "done" /\ pc[d] = "cleanup"
        /\ name[c] = "md_lint" /\ name[d] = "md_lint"
        /\ env[c].linter = <<LinterExit(1, "json")>>
        /\ frame[c].markdown_content # frame[d].markdown_content
        /\ Count(c, "unlink") = 1

\* The text of file after its last ".".
RECURSIVE AfterLastDot(_)
AfterLastDot(file) ==
    IF file[Len(file)] = "." THEN <<>>
    ELSE Append(AfterLastDot(SubSeq(file, 1, Len(file) - 1)), file[Len(file)])
\* The key an entry with a "." belongs under.
KeyOf(file) == Lower(IF HasDot(file) THEN AfterLastDot(file) ELSE <<>>)
\* The entries of files, in their order, that have a "." and the key k.
RECURSIVE WithKey(_, _)
WithKey(files, k) ==
    IF files = <<>> THEN <<>>
    ELSE (IF HasDot(Head(files)) /\ KeyOf(Head(files)) = k THEN <<Head(files)>> ELSE <<>>)
         \o WithKey(Tail(files), k)
\* The entries of files, in their order, that have no ".".
RECURSIVE WithoutDot(_)
WithoutDot(files) ==
    IF files = <<>> THEN <<>>
    ELSE (IF HasDot(Head(files)) THEN <<>> ELSE <<Head(files)>>) \o WithoutDot(Tail(files))
\* The keys of files in the order each is first seen.
RECURSIVE FirstSeen(_, _)
FirstSeen(files, seen) ==
    IF files = <<>> THEN <<>>
    ELSE IF HasDot(Head(files)) /\ KeyOf(Head(files)) \notin seen
    THEN <<KeyOf(Head(files))>> \o FirstSeen(Tail(files), seen \cup {KeyOf(Head(files))})
    ELSE FirstSeen(Tail(files), seen)
RECURSIVE SumCounts(_)
SumCounts(by_type) ==
    IF by_type = <<>> THEN 0 ELSE Head(by_type).count + SumCounts(Tail(by_type))

\* C10: in the ls report each entry stands in one place of the grouping: under
\* the lowercased text after its last ".", or with the entries without
\* extension; keys come in first-seen order and entries in read order; the
\* group sizes add up to the total; and the complete listing is the entries
\* in ascending order, numbered from 1.
C10_LsReport ==
    \A c \in Calls :
        name[c] = "ls" /\ pc[c] = "done" =>
            LET files == env[c].listdir[1].files
                keys == FirstSeen(files, {})
                groups == frame[c].extensions
                report == outcome[c].report[1]
            IN  /\ Len(groups) = Len(keys)
                /\ \A i \in 1..Len(keys) :
                        /\ groups[i].ext = keys[i]
                        /\ groups[i].files = WithKey(files, keys[i])
                /\ frame[c].no_extension = WithoutDot(files)
                /\ Len(report.by_type) = Len(groups)
                /\ \A i \in 1..Len(groups) :
                        /\ report.by_type[i].label = Upper(groups[i].ext)
                        /\ report.by_type[i].files = groups[i].files
                        /\ report.by_type[i].count = Len(groups[i].files)
                /\ report.without_extension = WithoutDot(files)
                /\ report.file_count = Len(files)
                /\ SumCounts(report.by_type) + Len(report.without_extension)
                        = report.file_count
                /\ Len(report.complete) = Len(files)
                /\ {report.complete[i].file : i \in 1..Len(files)}
                        = {files[i] : i \in 1..Len(files)}
                /\ \A i \in 1..Len(files) : report.complete[i].idx = i
                /\ \A i \in 1..(Len(files) - 1) :
                        StrLess(report.complete[i].file, report.complete[i + 1].file)

\* ls has reported on a directory read as "A..a", ".A": both entries stand
\* under the key "a", in read order, and the complete listing has them in the
\* other order.
C10_Witness ==
    \E c \in Calls :
        /\ name[c] = "ls" /\ pc[c] = "done"
        /\ frame[c].files = << <<"A", ".", ".", "a">>, <<".", "A">> >>
        /\ Len(frame[c].extensions) = 1
        /\ outcome[c].report[1].complete[1].file = <<".", "A">>

====
